---- MODULE Spec2Model ----
(***************************************************************************)
(* Model of pydsge's estimation front end (pydsge/estimation.py) and       *)
(* filter runner / extraction driver (pydsge/filtering.py).                *)
(*                                                                         *)
(* The session object (`self`), the closures built by prep_estim (llike,   *)
(* lprior, lprob) and numpy's global random-number generator are the       *)
(* state.  Every public operation is one action; the collaborators that    *)
(* live outside these two files (get_sys, the filter classes, the prior    *)
(* distributions) are deterministic stand-ins so that determinism claims   *)
(* can be refuted only by the code under study.                            *)
(***************************************************************************)
EXTENDS Integers, Sequences, FiniteSets, TLC

(***************************************************************************)
(* Bounds of the model.                                                    *)
(***************************************************************************)
\* parameter coordinates range over 0..MaxParVal
MaxParVal == 1
\* number of distinct states of the global generator (numpy's Mersenne
\* twister state, scaled down)
RngMod == 3
\* stand-in for the 2**32 - 1 modulus of estimation.py:198 (TLC integers
\* are 32 bit wide, the fold is kept but scaled down)
SeedFold == 5
\* largest session seed handed to prep_estim
MaxSeed == 1
\* largest temperature handed to lprob
MaxTemp == 1

(***************************************************************************)
(* Floating point values: finite numbers, the two infinities and NaN.      *)
(***************************************************************************)
Fin(n) == [k |-> "fin", v |-> n]
NegInf == [k |-> "-inf", v |-> 0]
PosInf == [k |-> "+inf", v |-> 0]
NaN == [k |-> "nan", v |-> 0]
\* the value of a call that did not return one
NoValue == [k |-> "none", v |-> 0]

\* np.isinf
isinf(x) == x.k \in {"-inf", "+inf"}

isnan_never(x) == FALSE

isnan(x) == x.k = "nan"

\* IEEE addition
FAdd(x, y) ==
    CASE x.k = "nan" \/ y.k = "nan" -> NaN
      [] x.k = "fin" /\ y.k = "fin" -> Fin(x.v + y.v)
      [] x.k = "fin" -> y
      [] y.k = "fin" -> x
      [] x.k = y.k -> x
      [] OTHER -> NaN

\* IEEE multiplication of a float by the integer temperature
FMulInt(x, t) ==
    CASE x.k = "nan" -> NaN
      [] x.k = "fin" -> Fin(x.v * t)
      [] t = 0 -> NaN
      [] t > 0 -> x
      [] OTHER -> IF x.k = "-inf" THEN PosInf ELSE NegInf

(***************************************************************************)
(* numpy's global generator.                                               *)
(***************************************************************************)
RngStates == 0 .. (RngMod - 1)

\* np.random.seed(s) with an integer seed
SeedState(s) == s % RngMod

\* the generator state after one draw
RngAdvance(r) == (r + 1) % RngMod

\* np.random.randint(2**32-2) in state r
RandInt(r) == (2 * r + 1) % SeedFold

(***************************************************************************)
(* Parameter vectors, the prior and the model's raw data.                  *)
(***************************************************************************)
ParVals == 0 .. MaxParVal

\* self.prior: one entry per estimated parameter (support of the density)
PriorSpec == << [name |-> "elb_level", lb |-> 0, ub |-> 1],
                [name |-> "sig", lb |-> 1, ub |-> 1] >>

\* the prior specifications a user edits self.prior to between calls
PriorEdits == { PriorSpec, SubSeq(PriorSpec, 1, 1),
                << PriorSpec[2], PriorSpec[1] >> }

\* self.prior_arg: positions of the estimated parameters in par_fix
prior_arg == << 1, 2 >>

\* self.par_fix of a freshly loaded model
InitParFix == << 0, 1, 0 >>

\* the column self.const_obs of self.data of a freshly loaded model
RawData == << 0, 1 >>

\* ParameterVectors handed to llike and lprob: all vectors of the right
\* length and one that is too long
ParVecs == [1 .. Len(prior_arg) -> ParVals] \cup { << 0, 1, 0, 0 >> }

RECURSIVE SeqSum(_)
SeqSum(q) == IF q = << >> THEN 0 ELSE Head(q) + SeqSum(Tail(q))

\* get_prior(prior): frozen distributions, initial values and bounds
get_prior(prior) ==
    [ frozen |-> [i \in 1 .. Len(prior) |-> [lb |-> prior[i].lb, ub |-> prior[i].ub]],
      initv  |-> [i \in 1 .. Len(prior) |-> prior[i].lb],
      bounds |-> << [i \in 1 .. Len(prior) |-> prior[i].lb],
                    [i \in 1 .. Len(prior) |-> prior[i].ub] >> ]

\* pl.logpdf(x) of a frozen prior: -inf outside the support
logpdf(pl, x) == IF x < pl.lb \/ x > pl.ub THEN NegInf ELSE Fin(0 - (x - pl.lb))

(***************************************************************************)
(* Collaborators outside estimation.py and filtering.py, as                *)
(* deterministic functions of their inputs.                                *)
(***************************************************************************)
\* parameter vectors for which the model has no solution
SysFails(par) == par[1] = 0 /\ par[2] = 0

\* self.get_sys(par, l_max, k_max): rebuilds the system on the session
get_sys(s, par, l_max, k_max) ==
    IF SysFails(par)
    THEN [exc |-> "LinAlgError", s |-> s]
    ELSE [exc |-> "none",
          s |-> [s EXCEPT !.hasSys = TRUE, !.par = par,
                          !.sys = [par |-> par, l_max |-> l_max, k_max |-> k_max]]]

\* self.QQ(self.ppar): the shock covariance of the current parameters
QQ(s) == s.par

\* is the observed column constant (its sample variance zero)
Degenerate(Z) == \A i \in 1 .. Len(Z) : Z[i] = Z[1]

\* filter.batch_filter(Z) of the three filter classes: the outcome is
\* one of a likelihood, a likelihood with a numerical warning, or
\* an exception.  A constant observable makes the innovation covariance
\* singular (an exception in the Kalman and particle filters, a NaN
\* likelihood in the ensemble filter); the ensemble and particle filters
\* draw from the global generator.
batch_filter(f, Z, r) ==
    LET a == f.Q.par[1]
        b == f.Q.par[2]
        kalman == f.name = "KalmanFilter"
        noise == IF kalman THEN 0 ELSE r
        r2 == IF kalman THEN r ELSE RngAdvance(r)
        val == Fin(0 - ((SeqSum(Z) + a + noise) % 3))
    IN  IF Degenerate(Z)
        THEN (IF f.name # "TEnKF"
              THEN [exc |-> "LinAlgError", warn |-> FALSE, ll |-> NoValue, r |-> r2]
              ELSE [exc |-> "none", warn |-> FALSE, ll |-> NaN, r |-> r2])
        ELSE IF b = 1
        THEN [exc |-> "none", warn |-> FALSE, ll |-> val, r |-> r2]
        ELSE IF b = 0
        THEN [exc |-> "none", warn |-> TRUE, ll |-> val, r |-> r2]
        ELSE [exc |-> "none", warn |-> FALSE, ll |-> NegInf, r |-> r2]

\* the filtered trajectory batch_filter returns when no likelihood is asked
Traj(f, Z) == [k |-> "traj", v |-> SeqSum(Z) + f.Q.par[1]]

\* rts_smoother / smoother: the smoothed trajectory
Smoothed(res) == [k |-> "smooth", v |-> res.v]

(***************************************************************************)
(* filtering.py                                                            *)
(***************************************************************************)
\* the session before any filter was created
NoFilter == [name |-> "none", N |-> 0, P |-> "none", init_P |-> "none",
             eps_cov |-> << >>,
             Q |-> [par |-> << >>, form |-> "none"], funcs |-> "unset"]

\* filter names create_filter can produce
FilterNames == {"KalmanFilter", "ParticleFilter", "TEnKF"}

\* create_filter(self, P, R, N, ftype, seed): builds the filter and stores
\* it as the session's active filter.  P is "None" or "arg", N is 0 for None.
create_filter(s, P, N, ftype) ==
    LET s1 == [s EXCEPT !.Z = s.data]
        kalman == ftype \in {"KalmanFilter", "KF"}
        particle == ftype \in {"PF", "APF", "ParticleFilter", "AuxiliaryParticleFilter"}
        name == IF kalman THEN "KalmanFilter"
                ELSE IF particle THEN "ParticleFilter" ELSE "TEnKF"
        n == IF kalman THEN N
             ELSE IF particle THEN (IF N = 0 THEN 10000 ELSE N)
             ELSE (IF N = 0 THEN 500 ELSE N)
        p == IF P # "None" THEN "arg"
             ELSE IF s.hasP THEN "self" ELSE "default*10"
        f == [name |-> name, N |-> n, P |-> p, init_P |-> p,
              eps_cov |-> QQ(s),
              Q |-> [par |-> QQ(s), form |-> IF kalman THEN "CO" ELSE "sq"],
              funcs |-> "unset"]
    IN  IF ~s.hasSys
        THEN [exc |-> "AttributeError", s |-> s1]
        ELSE [exc |-> "none", s |-> [s1 EXCEPT !.filter = f]]

Max(x, y) == IF x >= y THEN x ELSE y

\* run_filter(self, smoother, get_ll, dispatch, rcond, constr_data, verbose).
\* constr_data and dispatch are "None", "True" or "False"; r is the global
\* generator; werr says whether numerical warnings are promoted to errors.
run_filter(s, r, smoother, getll, dispatch, constr_data, werr) ==
    LET constr == IF constr_data = "None"
                  THEN s.filter.name = "ParticleFilter"
                  ELSE constr_data = "True"
        x_shift == s.par[1]
        clamped == [i \in 1 .. Len(s.data) |-> Max(s.data[i], x_shift)]
        disp == IF dispatch = "None"
                THEN s.filter.name = "ParticleFilter"
                ELSE dispatch = "True"
        funcs == IF disp THEN "jit" ELSE "plain"
        \* from the dispatch on the filter's class on: s2 is the session
        \* with its data and filter functions set, bf what batch_filter
        \* does on it
        filtered(s2, bf, traj) ==
            LET failed == IF bf.exc # "none" THEN bf.exc
                          ELSE IF werr /\ bf.warn THEN "RuntimeWarning" ELSE "none"
                res0 == IF s2.filter.name = "KalmanFilter"
                        THEN (IF getll THEN bf.ll ELSE traj)
                        ELSE IF s2.filter.name = "ParticleFilter" THEN traj
                        ELSE (IF getll THEN bf.ll ELSE traj)
                res1 == IF smoother THEN Smoothed(res0) ELSE res0
                s3 == IF s2.filter.name = "KalmanFilter"
                      THEN [s2 EXCEPT !.covs = traj.v] ELSE s2
                \* np.isnan of a whole trajectory has no truth value
                ambiguous == getll /\ res1.k \in {"traj", "smooth"}
                res == IF getll /\ isnan(res1) THEN NegInf ELSE res1
            IN  IF failed # "none"
                THEN [exc |-> failed, res |-> NoValue, s |-> s2, r |-> bf.r]
                ELSE IF ambiguous
                THEN [exc |-> "ValueError", res |-> NoValue, s |-> s3, r |-> bf.r]
                ELSE IF getll
                THEN [exc |-> "none", res |-> res, s |-> [s3 EXCEPT !.ll = res], r |-> bf.r]
                ELSE [exc |-> "none", res |-> res, s |-> [s3 EXCEPT !.X = res], r |-> bf.r]
        prepared(s2) ==
            filtered(s2, batch_filter(s2.filter, s2.Z, r), Traj(s2.filter, s2.Z))
    IN  prepared(IF constr
                 THEN [s EXCEPT !.data = clamped, !.Z = clamped, !.filter.funcs = funcs]
                 ELSE [s EXCEPT !.Z = s.data, !.filter.funcs = funcs])

\* get_ll(self, **args)
get_ll(s, r, dispatch, constr_data, werr) ==
    run_filter(s, r, FALSE, TRUE, dispatch, constr_data, werr)

(***************************************************************************)
(* estimation.py: the closures prep_estim builds.                          *)
(*                                                                         *)
(* env is the closure environment (par_fix, linear_pa, seed, constr_data,  *)
(* dispatch), s the session, r the global generator.  intr names the       *)
(* step during which the user's interrupt (KeyboardInterrupt) arrives,     *)
(* "none" if it does not.                                                  *)
(***************************************************************************)
IntrPoints == {"none", "subst", "get_sys", "get_ll"}

\* par_fix[prior_arg] = parameters (numpy broadcasts one value, rejects
\* any other length mismatch)
Subst(par_fix, parameters) ==
    IF Len(parameters) = Len(prior_arg)
    THEN [exc |-> "none",
          par_fix |-> [i \in 1 .. Len(par_fix) |->
                         IF \E j \in 1 .. Len(prior_arg) : prior_arg[j] = i
                         THEN parameters[CHOOSE j \in 1 .. Len(prior_arg) : prior_arg[j] = i]
                         ELSE par_fix[i]]]
    ELSE IF Len(parameters) = 1
    THEN [exc |-> "none",
          par_fix |-> [i \in 1 .. Len(par_fix) |->
                         IF \E j \in 1 .. Len(prior_arg) : prior_arg[j] = i
                         THEN parameters[1] ELSE par_fix[i]]]
    ELSE [exc |-> "ValueError", par_fix |-> par_fix]

\* the body of llike's try block, estimation.py:122-153, up to the
\* first exception
llike_try(env, s, r, parameters, linear, verbose, seed, intr) ==
    LET r1 == SeedState(seed)
        mismatch == IF ~linear THEN s.filter.name = "KalmanFilter"
                    ELSE s.filter.name # "KalmanFilter"
        stop(e, ss, rr, pf, nsys, nrun) ==
            [exc |-> e, ll |-> NoValue, s |-> ss, r |-> rr, par_fix |-> pf,
             sysCalls |-> nsys, filterRuns |-> nrun]
        \* self.get_ll(...) returned or raised as gl
        ran(pf, gl) ==
            IF gl.exc # "none" THEN stop(gl.exc, gl.s, gl.r, pf, 1, 1)
            ELSE [exc |-> "none", ll |-> gl.res, s |-> gl.s, r |-> gl.r,
                  par_fix |-> pf, sysCalls |-> 1, filterRuns |-> 1]
        \* the filter's Q is rebound on the session s2
        rebound(pf, s2) ==
            IF intr = "get_ll" THEN stop("KeyboardInterrupt", s2, r1, pf, 1, 1)
            ELSE ran(pf, get_ll(s2, r1, env.dispatch, env.constr_data, TRUE))
        \* self.get_sys(...) returned or raised as gs
        rebuilt(pf, gs) ==
            IF gs.exc # "none" THEN stop(gs.exc, gs.s, r1, pf, 1, 0)
            ELSE rebound(pf, [gs.s EXCEPT !.filter.Q =
                                  [par |-> QQ(gs.s),
                                   form |-> IF ~linear THEN "sq" ELSE "CO"]])
        \* par_fix[prior_arg] = parameters returned or raised as sub
        substituted(sub) ==
            IF sub.exc # "none" THEN stop(sub.exc, s, r1, env.par_fix, 0, 0)
            ELSE IF mismatch THEN stop("AttributeError", s, r1, sub.par_fix, 0, 0)
            ELSE IF intr = "get_sys"
            THEN stop("KeyboardInterrupt", s, r1, sub.par_fix, 1, 0)
            ELSE rebuilt(sub.par_fix,
                         IF ~linear THEN get_sys(s, sub.par_fix, 3, 16)
                         ELSE get_sys(s, sub.par_fix, 1, 0))
    IN  IF intr = "subst" THEN stop("KeyboardInterrupt", s, r1, env.par_fix, 0, 0)
        ELSE substituted(Subst(env.par_fix, parameters))

\* a handler that names the numerical errors instead of Exception
llike_catches_numeric(exc) == exc \in {"LinAlgError", "RuntimeWarning"}

\* a bare `except:` without the KeyboardInterrupt clause in front of it
llike_catches_all(exc) == TRUE

\* llike's except clauses: KeyboardInterrupt is re-raised, every other
\* Exception is handled
llike_catches(exc) == exc # "KeyboardInterrupt"

\* llike without its np.random.set_state calls
llike_restore_missing(r0, r) == r

\* np.random.set_state(random_state) before each return: the generator
\* state llike returns with, given the snapshot r0 and the current state r
llike_restore(r0, r) == r0

\* llike(parameters, linear, verbose, seed)
llike(env, s, r, parameters, linear, verbose, seed, intr) ==
    LET random_state == r
        \* the try block ended as t
        tried(t) ==
            LET base == [outcome |-> "return", value |-> NoValue, exc |-> "none",
                         s |-> t.s, r |-> t.r, par_fix |-> t.par_fix,
                         sysCalls |-> t.sysCalls, filterRuns |-> t.filterRuns,
                         diag |-> FALSE]
            IN  IF t.exc = "none"
                THEN [base EXCEPT !.value = t.ll,
                                  !.r = llike_restore(random_state, t.r)]
                ELSE IF llike_catches(t.exc)
                THEN [base EXCEPT !.value = NegInf, !.exc = t.exc,
                                  !.diag = (verbose > 1),
                                  !.r = llike_restore(random_state, t.r)]
                ELSE [base EXCEPT !.outcome = "raise", !.exc = t.exc]
    IN  tried(llike_try(env, s, r, parameters, linear, verbose, seed, intr))

\* lprior(par): the sum of the frozen priors' log-densities
RECURSIVE lprior_from(_, _, _)
lprior_from(frozen, par, i) ==
    IF i > Len(frozen) THEN Fin(0)
    ELSE FAdd(logpdf(frozen[i], par[i]), lprior_from(frozen, par, i + 1))

lprior(s, par) == lprior_from(s.fdict.frozen_prior, par, 1)

\* seed policies lprob accepts, and one it does not
SeedPolicies == {"set", "vec", "rand", "other"}

\* the prior test written with np.isnan
lprob_shortcut_nan(lp) == isnan(lp)

\* lprob's test `if np.isinf(lp): return lp`
lprob_shortcut(lp) == isinf(lp)

\* lprob multiplying by temp without the `if temp else 0`
lprob_skips_never(temp) == FALSE

\* lprob's test `... if temp else 0`: is the likelihood left out
lprob_skips_llike(temp) == temp = 0

\* the likelihood test written with np.isnan
lprob_sentinel_nan(ll) == isnan(ll)

\* lprob's test `if np.isinf(ll): return ll`
lprob_sentinel(ll) == isinf(ll)

\* lprob with a plain `else:` for the session seed
lprob_policy_any(lprob_seed) == TRUE

\* lprob's branches on lprob_seed: is the policy one of the three known
lprob_policy_known(lprob_seed) == lprob_seed \in {"vec", "rand", "set"}

\* p // 10**(int(log10|p|) - 9) of one coordinate, in units of 10**9:
\* the leading digits of p; the logarithm of 0 is -inf and int() of it
\* overflows
seed_digits_fail(par) == \E i \in 1 .. Len(par) : par[i] = 0

seed_digits(par) == SeqSum(par)

lprob_draws_vec(lprob_seed) == lprob_seed \in {"vec", "rand"}

\* if lprob_seed == 'rand': seed_loc += np.random.randint(2**32-2)
lprob_draws(lprob_seed) == lprob_seed = "rand"

\* lprob(par, linear, verbose, temp, lprob_seed); linear is "None",
\* "True" or "False"
lprob(env, s, r, par, linear, verbose, temp, lprob_seed, intr) ==
    LET lin == IF linear = "None" THEN env.linear_pa ELSE linear = "True"
        drawn == lprob_draws(lprob_seed)
        r1 == IF drawn THEN RngAdvance(r) ELSE r
        seed_loc == IF lprob_seed \in {"vec", "rand"}
                    THEN (seed_digits(par) + (IF drawn THEN RandInt(r) ELSE 0)) % SeedFold
                    ELSE env.seed
        base(lp) == [outcome |-> "return", value |-> NoValue, exc |-> "none",
                     s |-> s, r |-> r, par_fix |-> env.par_fix, lp |-> lp,
                     llikeCalls |-> 0, sysCalls |-> 0, filterRuns |-> 0,
                     llval |-> NoValue, added |-> FALSE, diag |-> FALSE]
        \* llike(par, linear, verbose, seed_loc) ended as lk
        evaluated(lp, lk) ==
            LET ran == [base(lp) EXCEPT
                            !.s = lk.s, !.r = lk.r, !.par_fix = lk.par_fix,
                            !.llikeCalls = 1, !.sysCalls = lk.sysCalls,
                            !.filterRuns = lk.filterRuns, !.diag = lk.diag,
                            !.exc = lk.exc, !.llval = lk.value]
                ll == FMulInt(lk.value, temp)
            IN  IF lk.outcome = "raise" THEN [ran EXCEPT !.outcome = "raise"]
                ELSE IF lprob_sentinel(ll) THEN [ran EXCEPT !.value = ll]
                ELSE [ran EXCEPT !.value = FAdd(ll, lp), !.added = TRUE]
        \* lp = lprior(par)
        weighed(lp) ==
            IF lprob_shortcut(lp) THEN [base(lp) EXCEPT !.value = lp]
            ELSE IF lprob_seed \in {"vec", "rand"} /\ seed_digits_fail(par)
            THEN [base(lp) EXCEPT !.outcome = "raise", !.exc = "OverflowError"]
            ELSE IF ~lprob_policy_known(lprob_seed)
            THEN [base(lp) EXCEPT !.outcome = "raise", !.exc = "NotImplementedError"]
            ELSE IF lprob_skips_llike(temp)
            THEN [base(lp) EXCEPT !.value = FAdd(Fin(0), lp), !.r = r1,
                                  !.added = TRUE]
            ELSE evaluated(lp, llike(env, s, r1, par, lin, verbose, seed_loc, intr))
    IN  weighed(lprior(s, par))

(***************************************************************************)
(* State.                                                                  *)
(***************************************************************************)
VARIABLES
    self,   \* the session object (the DSGE model instance)
    env,    \* what the closures llike / lprior / lprob captured
    rng,    \* the state of numpy's global generator
    call,   \* the most recent call of a public operation and its outcome
    ref,    \* the first default lprob evaluation since the session was set up
    report  \* the report the most recent extract returned

vars == << self, env, rng, call, ref, report >>

Verbosity == {0, 2}
Seeds == 0 .. MaxSeed
Temps == 0 .. MaxTemp
Tri == {"None", "True", "False"}

\* no extraction report
NoReport == [pars |-> << >>, recs |-> << >>]

\* a session whose model was loaded but not yet prepared for estimation
InitSelf ==
    [ hasSys |-> FALSE, hasP |-> FALSE, hasLprob |-> FALSE,
      par_fix |-> InitParFix, par |-> InitParFix, prior |-> PriorSpec,
      sys |-> [par |-> << >>, l_max |-> 0, k_max |-> 0],
      filter |-> NoFilter,
      data |-> RawData, Z |-> << >>,
      ll |-> NoValue, X |-> NoValue, covs |-> 0,
      fdict |-> [ has |-> {}, filter_n |-> 0, linear |-> FALSE, seed |-> 0,
                  constr_data |-> FALSE, prior_names |-> << >>,
                  frozen_prior |-> << >>, prior_bounds |-> << >>,
                  init_value |-> << >> ],
      ndim |-> 0, debug |-> FALSE, pool |-> "absent", eps_dict |-> NoReport ]

NoEnv == [ par_fix |-> << >>, linear_pa |-> FALSE, seed |-> 0,
           constr_data |-> "False", dispatch |-> "False" ]

NoCall == [ op |-> "none", outcome |-> "return", value |-> NoValue,
            exc |-> "none", par |-> << >>, lin |-> FALSE, temp |-> 1,
            policy |-> "set", lp |-> NoValue, llval |-> NoValue, llikeCalls |-> 0,
            sysCalls |-> 0, filterRuns |-> 0, added |-> FALSE,
            diag |-> FALSE, attempts |-> 0, kbd |-> FALSE,
            grid |-> << >>, nsamples |-> 0, trouble |-> 0, fails |-> 0,
            mapper |-> "none", atts |-> << >>, setPars |-> 0,
            getll |-> FALSE, clamp |-> FALSE ]

NoRef == [ par |-> << >>, value |-> NoValue ]

Init ==
    /\ self = InitSelf
    /\ env = NoEnv
    /\ rng \in RngStates
    /\ call = NoCall
    /\ ref = NoRef
    /\ report = NoReport

\* create_pool(self, ncores): a fresh, cleared process pool
create_pool(s) == [s EXCEPT !.pool = "open"]

\* the mapper property: self.pool.imap if the session has a pool attribute
\* and is not debugging, else map.  A pool attribute of None has no imap,
\* and the imap of a closed pool refuses to run.
mapper(s) ==
    IF s.pool # "absent" /\ ~s.debug
    THEN (CASE s.pool = "None" -> "AttributeError"
            [] s.pool = "closed" -> "ValueError"
            [] OTHER -> "imap")
    ELSE "map"

prep_ftype_default(lin) == "None"

\* ftype='KalmanFilter' if linear else None
prep_ftype(lin) == IF lin THEN "KalmanFilter" ELSE "None"

\* prep_estim(self, N, linear, load_R, seed, eval_priors, dispatch,
\* constr_data, ncores, verbose, debug).  linear is "None", "True" or
\* "False"; seed is -1 for None; N is 0 for None; ncores is "None", "0" or
\* "2"; entropy is the state np.random.seed(None) leaves the generator in.
prep_estim(s, r, N, linear, load_R, seed, eval_priors, dispatch, constr_data, ncores, debug, entropy) ==
    LET r1 == IF seed = -1 THEN entropy ELSE SeedState(seed)
        n == IF N # 0 THEN N
             ELSE IF "filter_n" \in s.fdict.has THEN s.fdict.filter_n ELSE 300
        lin == IF linear # "None" THEN linear = "True"
               ELSE IF "linear" \in s.fdict.has THEN s.fdict.linear ELSE FALSE
        sd == IF seed # -1 THEN seed
              ELSE IF "seed" \in s.fdict.has THEN s.fdict.seed ELSE 0
        gp == get_prior(s.prior)
        env2 == [par_fix |-> s.par_fix, linear_pa |-> lin, seed |-> sd,
                 constr_data |-> IF constr_data THEN "True" ELSE "False",
                 dispatch |-> IF dispatch THEN "True" ELSE "False"]
        fail(e, ss, rr) == [exc |-> e, s |-> ss, r |-> rr, newenv |-> FALSE, env |-> NoEnv]
        \* the closures are attached and the pool is created
        attached(s4, r2) ==
            [exc |-> "none",
             s |-> IF ncores = "None" \/ ncores # "0" THEN create_pool(s4)
                   ELSE [s4 EXCEPT !.pool = "None"],
             r |-> r2, newenv |-> TRUE, env |-> env2]
        \* the prior names are stored on the session s2
        named(s2, r2) ==
            attached(IF "frozen_prior" \notin s2.fdict.has \/ eval_priors
                     THEN [s2 EXCEPT !.fdict.frozen_prior = gp.frozen,
                                     !.fdict.prior_bounds = gp.bounds,
                                     !.fdict.init_value = gp.initv,
                                     !.fdict.has = @ \cup {"frozen_prior",
                                                           "prior_bounds",
                                                           "init_value"},
                                     !.hasLprob = TRUE]
                     ELSE [s2 EXCEPT !.hasLprob = TRUE],
                     r2)
        \* the dry run self.get_ll(...) ended as dry
        dry_run(dry) ==
            IF dry.exc # "none" THEN fail(dry.exc, dry.s, dry.r)
            ELSE IF isinf(dry.res) THEN fail("ValueError", dry.s, dry.r)
            ELSE named([dry.s EXCEPT !.fdict.prior_names =
                                         [i \in 1 .. Len(s.prior) |-> s.prior[i].name],
                                     !.fdict.has = @ \cup {"prior_names"},
                                     !.ndim = Len(s.prior)],
                       dry.r)
        \* self.create_filter(...) ended as cf
        filter_made(cf) ==
            IF cf.exc # "none" THEN fail(cf.exc, cf.s, r1)
            ELSE IF "filter_R" \notin cf.s.fdict.has /\ load_R
            THEN fail("AttributeError", cf.s, r1)
            ELSE dry_run(get_ll(cf.s, r1, IF dispatch THEN "True" ELSE "False",
                                IF constr_data THEN "True" ELSE "False", FALSE))
        \* self.get_sys(...), if called, ended as gs
        sys_made(gs) ==
            IF gs.exc # "none" THEN fail(gs.exc, gs.s, r1)
            ELSE filter_made(create_filter(gs.s, "None", n, prep_ftype(lin)))
        \* the settings are stored on the session s1
        stored(s1) ==
            sys_made(IF s1.hasSys THEN [exc |-> "none", s |-> s1]
                     ELSE get_sys(s1, s1.par, 0, 0))
    IN  stored([s EXCEPT !.fdict.filter_n = n, !.fdict.linear = lin,
                         !.fdict.seed = sd, !.fdict.constr_data = constr_data,
                         !.fdict.has = @ \cup {"filter_n", "linear", "seed",
                                               "constr_data", "datetime"},
                         !.debug = debug, !.Z = s.data])

(***************************************************************************)
(* filtering.py: extract and its per-pair runner.                          *)
(***************************************************************************)
\* largest sample grid and largest nsamples handed to extract
MaxGrid == 2
MaxReps == 2

\* `for natt in range(4)`: the attempts of the decomposition per pair
MaxAttempts == 4

\* parameter vectors of a sample grid
GridVecs == { << 0, 1 >>, << 1, 1 >> }

\* sample grids: None (the current parameters, written << >>), up to
\* MaxGrid parameter vectors, or one vector the model has no solution for
Grids ==
    { << << >> >>, << << 0, 0 >> >> }
        \cup UNION { [1 .. n -> GridVecs] : n \in 1 .. MaxGrid }

\* the pairs enumerated replicate by replicate
Pairs_by_replicate(grid, nsamples) ==
    [k \in 1 .. (Len(grid) * nsamples) |->
        << grid[((k - 1) % Len(grid)) + 1], (k - 1) \div Len(grid) >>]

\* sample = [(x, y) for x in sample for y in range(nsamples)]
Pairs(grid, nsamples) ==
    [k \in 1 .. (Len(grid) * nsamples) |->
        << grid[((k - 1) \div nsamples) + 1], (k - 1) % nsamples >>]

\* self.set_par(par): substitutes the parameters and rebuilds the system
set_par(s, par) ==
    LET sub == Subst(s.par_fix, par)
    IN  IF sub.exc # "none" THEN [exc |-> sub.exc, s |-> s]
        ELSE get_sys(s, sub.par_fix, 0, 0)

\* a retry loop that gives up one attempt earlier
runner_swallows_two(natt, exc) == natt < 2

\* the runner's `except:` clause: is the exception of attempt natt
\* (counted from 0) swallowed and the decomposition tried again
runner_swallows(natt, exc) == natt < 3

\* the runner's retry loop, from attempt natt on.  The decomposition
\* (filter.npas) fails on its first `fails` attempts; the one numbered
\* kbdAt (from 1, 0 for none) fails with the user's KeyboardInterrupt.
RECURSIVE npas_loop(_, _, _)
npas_loop(natt, fails, kbdAt) ==
    LET exc == IF kbdAt = natt + 1 THEN "KeyboardInterrupt"
               ELSE IF natt + 1 <= fails THEN "RuntimeError" ELSE "none"
        rest == npas_loop(natt + 1, fails, kbdAt)
    IN  IF natt >= MaxAttempts
        THEN [exc |-> "none", done |-> FALSE, attempts |-> 0, kbd |-> FALSE]
        ELSE IF exc = "none"
        THEN [exc |-> "none", done |-> TRUE, attempts |-> 1, kbd |-> FALSE]
        ELSE IF runner_swallows(natt, exc)
        THEN [rest EXCEPT !.attempts = @ + 1,
                          !.kbd = @ \/ exc = "KeyboardInterrupt"]
        ELSE [exc |-> exc, done |-> FALSE, attempts |-> 1,
              kbd |-> exc = "KeyboardInterrupt"]

\* a try block around the whole body of the runner
runner_guards_all(step) == TRUE

\* the runner's try block encloses the decomposition only: is the named
\* step of the runner run again after it raised
runner_guarded(step) == step = "npas"

\* runner(arg) for the pair arg = (par, seed_loc)
runner(s, r, arg, fails, kbdAt) ==
    LET par == arg[1]
        called == IF par = << >> THEN 0 ELSE 1
        again(step) == IF runner_guarded(step) THEN 2 ELSE 1
        none == [exc |-> "none", rec |-> [par |-> par, rep |-> arg[2], att |-> 0, X |-> 0],
                 s |-> s, r |-> r, attempts |-> 0, kbd |-> FALSE,
                 filterRuns |-> 0, setPars |-> called]
        \* self.run_filter(...) ended as rf and the retry loop as lp
        filtered(rf, lp) ==
            IF rf.exc # "none"
            THEN [none EXCEPT !.exc = rf.exc, !.s = rf.s, !.r = rf.r,
                              !.filterRuns = again("run_filter")]
            ELSE [none EXCEPT !.exc = lp.exc, !.s = rf.s, !.r = rf.r,
                              !.filterRuns = 1, !.attempts = lp.attempts,
                              !.kbd = lp.kbd,
                              !.rec = [par |-> par, rep |-> arg[2],
                                       att |-> lp.attempts, X |-> rf.res.v]]
        \* self.set_par(par), if called, ended as sp
        placed(sp) ==
            IF sp.exc # "none"
            THEN [none EXCEPT !.exc = sp.exc, !.s = sp.s, !.setPars = again("set_par")]
            ELSE filtered(run_filter(sp.s, r, TRUE, FALSE, "None", "None", FALSE),
                          npas_loop(0, fails, kbdAt))
    IN  placed(IF par = << >> THEN [exc |-> "none", s |-> s] ELSE set_par(s, par))

\* mapper(runner, sample) consumed by map2arr, from pair i on.  shared
\* says whether the pairs run one after the other on the session itself
\* (map) or each on a worker's copy of it (imap); pair number `trouble` is
\* the one whose decomposition fails.
RECURSIVE run_pairs(_, _, _, _, _, _, _, _)
run_pairs(s, r, sample, i, shared, trouble, fails, kbdAt) ==
    LET \* the runner ended on pair i as one; the rest runs on (s1, r1)
        continued(one, s1, r1) ==
            IF one.exc # "none"
            THEN [exc |-> one.exc, recs |-> << >>, s |-> s1, r |-> r1,
                  attempts |-> one.attempts, kbd |-> one.kbd,
                  filterRuns |-> one.filterRuns, setPars |-> one.setPars,
                  atts |-> << one.attempts >>]
            ELSE [run_pairs(s1, r1, sample, i + 1, shared, trouble, fails, kbdAt)
                    EXCEPT !.recs = << one.rec >> \o @,
                           !.attempts = @ + one.attempts,
                           !.kbd = @ \/ one.kbd,
                           !.filterRuns = @ + one.filterRuns,
                           !.setPars = @ + one.setPars,
                           !.atts = << one.attempts >> \o @]
        ended(one) ==
            continued(one, IF shared THEN one.s ELSE s, IF shared THEN one.r ELSE r)
    IN  IF i > Len(sample)
        THEN [exc |-> "none", recs |-> << >>, s |-> s, r |-> r,
              attempts |-> 0, kbd |-> FALSE, filterRuns |-> 0, setPars |-> 0,
              atts |-> << >>]
        ELSE ended(runner(s, r, sample[i],
                          IF i = trouble THEN fails ELSE 0,
                          IF i = trouble THEN kbdAt ELSE 0))

\* extract without its call of self.pool.close()
pool_left_open(pool) == pool

\* `if self.pool: self.pool.close()`: the pool after extract's mapping
pool_closed(pool) == IF pool = "open" THEN "closed" ELSE pool

\* extract(self, sample, nsamples, precalc, seed, store_path, verbose, debug)
\* without a store_path
extract(s, r, grid, nsamples, debug, trouble, fails, kbdAt) ==
    LET s1 == [s EXCEPT !.debug = s.debug \/ debug]
        sample == Pairs(grid, nsamples)
        m == mapper(s1)
        stop(e, ss, rr, mm) ==
            [exc |-> e, s |-> ss, r |-> rr, edict |-> NoReport,
             attempts |-> 0, kbd |-> FALSE, filterRuns |-> 0,
             setPars |-> 0, atts |-> << >>, mapper |-> mm]
        \* the mapping ended as run; the call ends with exc and edict
        ending(run, e, ss, edict) ==
            [exc |-> e, s |-> ss, r |-> run.r, edict |-> edict,
             attempts |-> run.attempts, kbd |-> run.kbd,
             filterRuns |-> run.filterRuns, setPars |-> run.setPars,
             atts |-> run.atts, mapper |-> m]
        \* every pair ran: the pool is closed and the report stored
        reported(run, edict) ==
            ending(run, "none",
                   [run.s EXCEPT !.pool = pool_closed(@),
                                 !.eps_dict = edict],
                   edict)
        \* map2arr(mapper(runner, sample)) ended as run
        mapped(run) ==
            IF run.exc # "none" THEN ending(run, run.exc, run.s, NoReport)
            ELSE IF run.s.pool = "absent"
            THEN ending(run, "AttributeError", run.s, NoReport)
            ELSE reported(run, [pars |-> [k \in 1 .. Len(sample) |-> sample[k][1]],
                                recs |-> run.recs])
    IN  IF s1.filter.name = "none" THEN stop("AttributeError", s1, r, "none")
        ELSE IF m \notin {"map", "imap"} THEN stop(m, s1, r, m)
        ELSE mapped(run_pairs(s1, r, sample, 1, m = "map", trouble, fails, kbdAt))

(***************************************************************************)
(* Actions: one per public operation, each the whole call.                 *)
(*                                                                         *)
(* Spec explores every sequence of set-up operations (prep_estim,          *)
(* create_filter) followed by one evaluation (llike or lprob) with         *)
(* arbitrary arguments.  SpecSeq explores, after the same set-up, every    *)
(* sequence of lprob evaluations with default arguments.  SpecExtract      *)
(* explores the set-up, with and without a pool, followed by one extract   *)
(* or one llike.  SpecPool explores every sequence of prep_estim,          *)
(* create_filter and plain extract calls, SpecFilter every sequence of     *)
(* create_filter, set_par and run_filter calls, SpecPrior every sequence   *)
(* of prep_estim calls and edits of the prior specification.               *)
(***************************************************************************)
Done(op, outcome, exc) ==
    [NoCall EXCEPT !.op = op, !.outcome = outcome, !.exc = exc]

\* no likelihood has been evaluated yet
Setup == call.op \notin {"llike", "lprob", "extract"}

\* prep_estim with ncores drawn from cores (seed -1 is seed=None: the
\* generator is seeded from the system's entropy)
PrepEstimOn(cores) ==
    /\ \E linear \in Tri, seed \in {-1} \cup Seeds, constr_data \in BOOLEAN,
       eval_priors \in BOOLEAN, ncores \in cores, entropy \in RngStates :
        /\ (seed # -1 => entropy = 0)
        /\ \E p \in {prep_estim(self, rng, 0, linear, FALSE, seed, eval_priors,
                                FALSE, constr_data, ncores, FALSE, entropy)} :
            /\ self' = p.s
            /\ rng' = p.r
            /\ env' = IF p.newenv THEN p.env ELSE env
            /\ call' = Done("prep_estim", IF p.exc = "none" THEN "return" ELSE "raise", p.exc)
            /\ ref' = NoRef
            /\ UNCHANGED report

\* prep_estim(ncores=0): estimation without a pool
PrepEstim == Setup /\ PrepEstimOn({"0"})

\* prep_estim with or without a pool
PrepEstimPool == Setup /\ PrepEstimOn({"None", "0"})

\* prep_estim at any point of the session
PrepEstimAgain == PrepEstimOn({"None", "0"})

CreateFilterAgain ==
    /\ \E ftype \in {"KalmanFilter", "PF", "None"} :
        \E c \in {create_filter(self, "None", 0, ftype)} :
            /\ self' = c.s
            /\ call' = Done("create_filter", IF c.exc = "none" THEN "return" ELSE "raise", c.exc)
            /\ ref' = NoRef
            /\ UNCHANGED << env, rng, report >>

\* create_filter before the first evaluation
CreateFilter == Setup /\ CreateFilterAgain

LLike ==
    /\ Setup
    /\ self.hasLprob
    /\ \E parameters \in ParVecs, linear \in BOOLEAN, verbose \in Verbosity,
       seed \in Seeds, intr \in IntrPoints :
        \E k \in {llike(env, self, rng, parameters, linear, verbose, seed, intr)} :
            /\ self' = k.s
            /\ rng' = k.r
            /\ env' = [env EXCEPT !.par_fix = k.par_fix]
            /\ call' = [NoCall EXCEPT !.op = "llike", !.outcome = k.outcome,
                                      !.value = k.value, !.exc = k.exc,
                                      !.par = parameters, !.lin = linear,
                                      !.llval = k.value,
                                      !.llikeCalls = 1, !.sysCalls = k.sysCalls,
                                      !.filterRuns = k.filterRuns, !.diag = k.diag]
            /\ UNCHANGED << ref, report >>

\* one call lprob(par, linear, verbose, temp, lprob_seed), interrupted or not
LProbCall(par, linear, verbose, temp, lprob_seed, intr) ==
    \E k \in {lprob(env, self, rng, par, linear, verbose, temp, lprob_seed, intr)} :
        /\ self' = k.s
        /\ rng' = k.r
        /\ env' = [env EXCEPT !.par_fix = k.par_fix]
        /\ call' = [NoCall EXCEPT !.op = "lprob", !.outcome = k.outcome,
                                  !.value = k.value, !.exc = k.exc,
                                  !.par = par,
                                  !.lin = IF linear = "None" THEN env.linear_pa
                                          ELSE linear = "True",
                                  !.temp = temp, !.policy = lprob_seed,
                                  !.lp = k.lp, !.llval = k.llval,
                                  !.llikeCalls = k.llikeCalls,
                                  !.sysCalls = k.sysCalls,
                                  !.filterRuns = k.filterRuns,
                                  !.added = k.added, !.diag = k.diag]
        /\ ref' = IF /\ ref = NoRef /\ k.outcome = "return"
                     /\ linear = "None" /\ temp = 1 /\ lprob_seed = "set"
                  THEN [par |-> par, value |-> k.value] ELSE ref
        /\ UNCHANGED report

\* lprob(par, linear, verbose, temp, lprob_seed)
LProb ==
    /\ Setup
    /\ self.hasLprob
    /\ \E par \in ParVecs, linear \in Tri, verbose \in Verbosity, temp \in Temps,
          lprob_seed \in SeedPolicies, intr \in IntrPoints :
            LProbCall(par, linear, verbose, temp, lprob_seed, intr)

\* lprob(par): every argument but the parameter vector left at its default
LProbDefault ==
    /\ self.hasLprob
    /\ \E par \in ParVecs : LProbCall(par, "None", 0, 1, "set", "none")

\* extract(sample, nsamples, debug=debug); the decomposition of pair number
\* trouble fails `fails` times, the attempt kbdAt of them by an interrupt
Extract ==
    /\ Setup
    /\ \E grid \in Grids, nsamples \in 1 .. MaxReps, debug \in BOOLEAN,
       trouble \in 1 .. (MaxGrid * MaxReps), fails \in 0 .. MaxAttempts,
       kbdAt \in 0 .. MaxAttempts :
        /\ trouble <= Len(grid) * nsamples
        /\ kbdAt <= fails
        /\ (fails = 0 => trouble = 1)
        /\ \E x \in {extract(self, rng, grid, nsamples, debug, trouble, fails, kbdAt)} :
            /\ self' = x.s
            /\ rng' = x.r
            /\ report' = x.edict
            /\ call' = [NoCall EXCEPT !.op = "extract",
                                      !.outcome = IF x.exc = "none" THEN "return" ELSE "raise",
                                      !.exc = x.exc, !.attempts = x.attempts,
                                      !.kbd = x.kbd, !.filterRuns = x.filterRuns,
                                      !.grid = grid, !.nsamples = nsamples,
                                      !.trouble = trouble, !.fails = fails,
                                      !.mapper = x.mapper, !.atts = x.atts,
                                      !.setPars = x.setPars]
            /\ UNCHANGED << env, ref >>

\* extract() of the current parameters, at any point of the session, its
\* decomposition succeeding at once
ExtractAgain ==
    \E debug \in BOOLEAN :
        \E x \in {extract(self, rng, << << >> >>, 1, debug, 1, 0, 0)} :
            /\ self' = x.s
            /\ rng' = x.r
            /\ report' = x.edict
            /\ call' = [NoCall EXCEPT !.op = "extract",
                                      !.outcome = IF x.exc = "none" THEN "return" ELSE "raise",
                                      !.exc = x.exc, !.attempts = x.attempts,
                                      !.filterRuns = x.filterRuns,
                                      !.grid = << << >> >>, !.nsamples = 1,
                                      !.trouble = 1, !.mapper = x.mapper,
                                      !.atts = x.atts]
            /\ UNCHANGED << env, ref >>

Next == PrepEstim \/ CreateFilter \/ LLike \/ LProb

Spec == Init /\ [][Next]_vars

NextSeq == PrepEstim \/ LProbDefault

SpecSeq == Init /\ [][NextSeq]_vars

NextExtract == PrepEstimPool \/ CreateFilter \/ Extract \/ LLike

SpecExtract == Init /\ [][NextExtract]_vars

\* set_par(par) at any point of the session
SetPar ==
    \E par \in [1 .. Len(prior_arg) -> ParVals] :
        \E x \in {set_par(self, par)} :
            /\ self' = x.s
            /\ call' = [Done("set_par", IF x.exc = "none" THEN "return" ELSE "raise",
                              x.exc) EXCEPT !.par = par]
            /\ UNCHANGED << env, rng, ref, report >>

\* run_filter(smoother, get_ll, dispatch, constr_data) on a session that
\* has a filter
RunFilter ==
    /\ self.filter.name # "none"
    /\ \E smoother \in BOOLEAN, getll \in BOOLEAN, dispatch \in {"None", "True"},
          constr_data \in Tri :
        \E x \in {run_filter(self, rng, smoother, getll, dispatch, constr_data, FALSE)} :
            /\ self' = x.s
            /\ rng' = x.r
            /\ call' = [Done("run_filter", IF x.exc = "none" THEN "return" ELSE "raise",
                              x.exc)
                          EXCEPT !.value = x.res, !.filterRuns = 1, !.getll = getll,
                                 !.clamp = IF constr_data = "None"
                                           THEN self.filter.name = "ParticleFilter"
                                           ELSE constr_data = "True"]
            /\ UNCHANGED << env, ref, report >>

\* the user edits the prior specification of the session
EditPrior ==
    /\ \E p \in PriorEdits \ {self.prior} :
           self' = [self EXCEPT !.prior = p]
    /\ call' = Done("edit_prior", "return", "none")
    /\ UNCHANGED << env, rng, ref, report >>

NextPrior == PrepEstimAgain \/ EditPrior

SpecPrior == Init /\ [][NextPrior]_vars

NextFilter == CreateFilterAgain \/ SetPar \/ RunFilter

SpecFilter == Init /\ [][NextFilter]_vars

NextPool == PrepEstimAgain \/ CreateFilterAgain \/ ExtractAgain

SpecPool == Init /\ [][NextPool]_vars

(***************************************************************************)
(* Properties.                                                             *)
(***************************************************************************)
\* the requested linearity does not fit the kind of the active filter
Mismatch(lin, name) == IF lin THEN name # "KalmanFilter" ELSE name = "KalmanFilter"

\* C1: every call of llike that returns, with a likelihood or with -inf
\* after a contained failure, at any verbosity, leaves the global
\* generator in the state it had at call entry.
C1_GeneratorIsolation ==
    [][(call'.op = "llike" /\ call'.outcome = "return") => rng' = rng]_vars

\* llike returned -inf after the ensemble filter had drawn from the
\* re-seeded generator and failed, with the diagnostics printed
C1_Witness ==
    /\ call.op = "llike" /\ call.outcome = "return"
    /\ call.exc = "RuntimeWarning" /\ call.filterRuns = 1 /\ call.diag
    /\ self.filter.name = "TEnKF"

\* C2: an exception other than KeyboardInterrupt raised in llike's
\* parameter substitution, linearity check, system rebuild, filter
\* rebinding or filter run makes llike return -inf; nothing escapes.
C2_FailureContained ==
    (call.op = "llike" /\ call.exc \notin {"none", "KeyboardInterrupt"})
        => (call.outcome = "return" /\ call.value = NegInf)

\* the system rebuild failed inside llike at verbosity 2
C2_Witness ==
    /\ call.op = "llike" /\ call.exc = "LinAlgError" /\ call.sysCalls = 1
    /\ call.filterRuns = 0 /\ call.diag /\ call.outcome = "return"

\* C3: llike (directly or through lprob) on the nonlinear path with a
\* Kalman filter active, or on the linear path with another filter active,
\* raises a configuration fault instead of returning -inf.
C3_MismatchRaises ==
    ( /\ call.op \in {"llike", "lprob"} /\ call.llikeCalls = 1
      /\ call.exc \notin {"KeyboardInterrupt", "ValueError"}
      /\ Mismatch(call.lin, self.filter.name) )
        => (call.outcome = "raise" /\ call.exc = "AttributeError")

\* C4: a KeyboardInterrupt raised inside llike's evaluation leaves llike
\* and lprob as that exception; neither returns a value.
C4_InterruptPropagates ==
    (call.op \in {"llike", "lprob"} /\ call.exc = "KeyboardInterrupt")
        => (call.outcome = "raise" /\ call.value = NoValue)

\* lprob was interrupted during the filter run
C4_Witness ==
    /\ call.op = "lprob" /\ call.exc = "KeyboardInterrupt"
    /\ call.filterRuns = 1 /\ call.outcome = "raise"

\* C5: a KeyboardInterrupt raised during any attempt (1 to 4) of the
\* decomposition in extract's runner ends the extraction with that
\* exception; the retry loop does not swallow it.
C5_InterruptEndsExtract ==
    (call.op = "extract" /\ call.kbd)
        => (call.outcome = "raise" /\ call.exc = "KeyboardInterrupt")

\* C6: with a prior log-density of -inf, lprob returns that value and does
\* not call llike: no system rebuild, no filter run, session, closure and
\* generator untouched, whatever linearity, temperature and seed policy.
C6_PriorShortCircuit ==
    [][(call'.op = "lprob" /\ call'.lp = NegInf)
         => ( /\ call'.outcome = "return" /\ call'.value = NegInf
              /\ call'.llikeCalls = 0 /\ call'.sysCalls = 0
              /\ call'.filterRuns = 0
              /\ self' = self /\ env' = env /\ rng' = rng )]_vars

\* lprob returned the -inf prior although the seed policy was unknown
C6_Witness ==
    /\ call.op = "lprob" /\ call.lp = NegInf /\ call.policy = "other"
    /\ call.outcome = "return" /\ call.value = NegInf

\* C7: with a finite prior, a non-zero temperature and a likelihood of
\* -inf from llike, lprob returns an infinite value and does not add the
\* prior: the result is neither NaN nor finite.
C7_SentinelPropagation ==
    ( /\ call.op = "lprob" /\ call.outcome = "return" /\ call.lp.k = "fin"
      /\ call.temp # 0 /\ call.llikeCalls = 1 /\ call.llval = NegInf )
        => (isinf(call.value) /\ ~call.added)

\* llike contained a failure under lprob at a point of finite prior
C7_Witness ==
    /\ call.op = "lprob" /\ call.outcome = "return" /\ call.lp.k = "fin"
    /\ call.temp # 0 /\ call.llval = NegInf /\ call.exc # "none"
    /\ call.value = NegInf

\* C8: with a finite prior, lprob(par, temp=0) returns exactly the prior
\* and does not call llike, whatever the likelihood would have been.
C8_TemperatureZero ==
    (call.op = "lprob" /\ call.lp.k = "fin" /\ call.temp = 0)
        => ( /\ call.llikeCalls = 0
             /\ (call.outcome = "return" => call.value = call.lp)
             /\ (call.policy = "set" => call.outcome = "return") )

\* lprob returned the prior at temperature 0 where llike would have
\* failed on the linearity check
C8_Witness ==
    /\ call.op = "lprob" /\ call.lp.k = "fin" /\ call.temp = 0
    /\ call.policy = "set" /\ call.outcome = "return" /\ call.value = call.lp
    /\ Mismatch(call.lin, self.filter.name)

\* C9: with a fixed session seed and seed policy 'set', two calls of
\* lprob with the same parameter vector return the same value, whatever
\* was evaluated in between.
C9_Deterministic ==
    ( /\ call.op = "lprob" /\ call.outcome = "return"
      /\ ref # NoRef /\ call.par = ref.par )
        => call.value = ref.value

\* C10 as stated: for every parameter vector, lprob with an unknown seed
\* policy raises a configuration fault, returns nothing and does not
\* evaluate the likelihood.
C10_Original ==
    (call.op = "lprob" /\ call.policy = "other")
        => ( /\ call.outcome = "raise" /\ call.exc = "NotImplementedError"
             /\ call.value = NoValue /\ call.llikeCalls = 0 )

\* C10 amended: for every parameter vector whose prior log-density is not
\* infinite, lprob with an unknown seed policy raises a configuration
\* fault and returns nothing; for every parameter vector it does not
\* evaluate the likelihood.
C10_UnknownPolicy ==
    (call.op = "lprob" /\ call.policy = "other")
        => ( /\ call.llikeCalls = 0
             /\ (~isinf(call.lp)
                   => ( /\ call.outcome = "raise"
                        /\ call.exc = "NotImplementedError"
                        /\ call.value = NoValue )) )

\* lprob raised on an unknown seed policy at a point of finite prior
C10_Witness ==
    /\ call.op = "lprob" /\ call.policy = "other" /\ call.lp.k = "fin"
    /\ call.outcome = "raise" /\ call.exc = "NotImplementedError"

\* C11: an extract call that returns for a grid of n vectors and
\* nsamples = k reports n*k entries; entry i*k+j of pars is the i-th
\* vector and entry i*k+j of the results is the runner's record for the
\* pair (i-th vector, replicate j), with the pool's imap as with map.
C11_OrderPreserved ==
    (call.op = "extract" /\ call.outcome = "return")
        => ( /\ Len(report.pars) = Len(call.grid) * call.nsamples
             /\ Len(report.recs) = Len(call.grid) * call.nsamples
             /\ \A i \in 0 .. (Len(call.grid) - 1), j \in 0 .. (call.nsamples - 1) :
                  /\ report.pars[i * call.nsamples + j + 1] = call.grid[i + 1]
                  /\ report.recs[i * call.nsamples + j + 1].par = call.grid[i + 1]
                  /\ report.recs[i * call.nsamples + j + 1].rep = j )

\* extract returned through the pool for two different vectors and two
\* replicates
C11_Witness ==
    /\ call.op = "extract" /\ call.outcome = "return" /\ call.mapper = "imap"
    /\ call.grid = << << 0, 1 >>, << 1, 1 >> >> /\ call.nsamples = 2
    /\ Len(report.recs) = 4

\* C12: the runner invokes the decomposition at most 4 times per pair; a
\* decomposition failing on its first m <= 3 attempts yields the record of
\* attempt m + 1; only a decomposition failing 4 times ends extract, with
\* the exception of the fourth attempt and without a report.
C12_RetryBudget ==
    (call.op = "extract")
        => ( /\ \A i \in 1 .. Len(call.atts) : call.atts[i] <= MaxAttempts
             /\ (call.outcome = "return"
                   => ( /\ call.fails <= 3
                        /\ report.recs[call.trouble].att = call.fails + 1
                        /\ \A i \in 1 .. Len(report.recs) :
                             i # call.trouble => report.recs[i].att = 1 ))
             /\ (call.fails = 4 => (call.outcome = "raise" /\ report = NoReport))
             /\ (call.exc \in {"RuntimeError", "KeyboardInterrupt"}
                   => ( /\ call.fails = 4 /\ call.outcome = "raise"
                        /\ Len(call.atts) = call.trouble
                        /\ call.atts[call.trouble] = 4 )) )

\* the decomposition of the second pair failed three times and succeeded
\* on the fourth attempt
C12_Witness ==
    /\ call.op = "extract" /\ call.outcome = "return" /\ call.fails = 3
    /\ call.trouble = 2 /\ report.recs[2].att = 4

\* C13: the mapper extract consults is the sequential map whenever the
\* session is in debug mode or has no pool (no pool attribute, or the
\* None that prep_estim stores for ncores = 0), and the pool's imap
\* otherwise.
C13_MapperSeam ==
    (call.op = "extract" /\ call.mapper # "none")
        => IF self.debug \/ self.pool \in {"absent", "None"}
           THEN call.mapper = "map"
           ELSE call.mapper \in {"imap", "ValueError"}

\* C14: only the decomposition is retried.  Per pair the runner calls
\* set_par (for a pair that names a vector) and run_filter exactly once,
\* and an exception of either ends extract at once, before any
\* decomposition attempt of that pair; one llike call rebuilds the system
\* and runs the filter at most once.
C14_RetryOnlyDecomposition ==
    /\ (call.op = "llike" => (call.sysCalls <= 1 /\ call.filterRuns <= 1))
    /\ (call.op = "extract"
          => ( /\ call.setPars = IF call.grid = << << >> >> THEN 0 ELSE Len(call.atts)
               /\ call.filterRuns <= Len(call.atts)
               /\ call.filterRuns >= Len(call.atts) - 1
               /\ (call.outcome = "return"
                     => ( /\ call.filterRuns = Len(call.atts)
                          /\ Len(call.atts) = Len(call.grid) * call.nsamples ))
               /\ (call.exc = "LinAlgError"
                     => ( /\ call.outcome = "raise"
                          /\ call.atts[Len(call.atts)] = 0
                          /\ report = NoReport )) ))

\* the filter run of the second pair raised and extract ended with its
\* exception
C14_Witness ==
    /\ call.op = "extract" /\ call.outcome = "raise" /\ call.exc = "LinAlgError"
    /\ call.setPars = 2 /\ call.filterRuns = 2 /\ call.atts = << 1, 0 >>

\* C15: an extract call that returns on a session holding a pool leaves
\* that pool closed, whether it mapped through the pool or sequentially
\* in debug mode; a session without a usable pool gets one only from
\* create_pool, which prep_estim calls.
C15_PoolClosed ==
    [][ /\ ( ( /\ call'.op = "extract" /\ call'.outcome = "return"
               /\ self.pool \in {"open", "closed"} )
               => self'.pool = "closed" )
        /\ ( (self.pool # "open" /\ self'.pool = "open")
               => (call'.op = "prep_estim" /\ call'.outcome = "return") ) ]_vars

\* extract returned after mapping sequentially in debug mode and the
\* session's pool is closed
C15_Witness ==
    /\ call.op = "extract" /\ call.outcome = "return" /\ call.mapper = "map"
    /\ self.debug /\ self.pool = "closed"

\* C16: after any sequence of filter runs, the session's raw data is what
\* it was when the model was loaded, and after a run with clamping the
\* observations handed to the filter are the raw data with the
\* constrained column floored at the threshold of the current parameters.
C16_RawDataKept ==
    /\ self.data = RawData
    /\ ( (call.op = "run_filter" /\ call.clamp)
           => self.Z = [i \in 1 .. Len(RawData) |-> Max(RawData[i], self.par[1])] )

\* C17: after every prep_estim call, with the prior edited between calls
\* or not and eval_priors set or not, ndim, the number of prior names, the
\* number of frozen priors and the lengths of the bounds arrays are equal,
\* and index i of each refers to parameter i of the prior specification.
C17_PriorAligned ==
    (call.op = "prep_estim" /\ call.outcome = "return")
    => /\ Len(self.fdict.prior_names) = self.ndim
       /\ Len(self.fdict.frozen_prior) = self.ndim
       /\ Len(self.fdict.prior_bounds[1]) = self.ndim
       /\ Len(self.fdict.prior_bounds[2]) = self.ndim
       /\ \A i \in 1 .. self.ndim :
              /\ self.fdict.prior_names[i] = self.prior[i].name
              /\ self.fdict.frozen_prior[i] = get_prior(self.prior).frozen[i]
              /\ self.fdict.prior_bounds[1][i] = self.prior[i].lb
              /\ self.fdict.prior_bounds[2][i] = self.prior[i].ub

\* C18: a returning run_filter call in likelihood mode (get_ll) never
\* returns NaN, turns a NaN likelihood of the filter into -infinity, stores
\* what it returns as the session's likelihood and leaves the stored
\* trajectory alone; in trajectory mode it stores what it returns as the
\* session's trajectory and leaves the stored likelihood alone.
C18_LikelihoodMode ==
    [][ (call'.op = "run_filter" /\ call'.outcome = "return")
        => IF call'.getll
           THEN /\ call'.value # NaN
                /\ call'.value.k \in {"fin", "-inf"}
                /\ (batch_filter(self'.filter, self'.Z, rng).ll = NaN
                       => call'.value = NegInf)
                /\ self'.ll = call'.value
                /\ self'.X = self.X
           ELSE /\ call'.value.k \in {"traj", "smooth"}
                /\ self'.X = call'.value
                /\ self'.ll = self.ll ]_vars

\* the ensemble filter met a constant observable in likelihood mode after
\* a trajectory had been stored
C18_Witness ==
    /\ call.op = "run_filter" /\ call.outcome = "return" /\ call.getll
    /\ self.filter.name = "TEnKF" /\ Degenerate(self.Z)
    /\ call.value = NegInf /\ self.ll = NegInf
    /\ self.X.k = "traj"

\* C19: a returning lprob call with seed policy 'set' or 'vec' leaves the
\* global generator as it found it, whichever way it returns; with policy
\* 'rand' and a finite prior it leaves the generator one draw further,
\* the draw being made before llike's snapshot so that the restore keeps it.
C19_SeedPolicyRng ==
    [][ (call'.op = "lprob" /\ call'.outcome = "return")
        => IF call'.policy = "rand" /\ ~isinf(call'.lp)
           THEN rng' = RngAdvance(rng) /\ rng' # rng
           ELSE rng' = rng ]_vars

\* a 'vec' evaluation that ran a filter drawing from the generator
C19_Witness ==
    /\ call.op = "lprob" /\ call.outcome = "return" /\ call.policy = "vec"
    /\ call.llikeCalls = 1 /\ call.filterRuns = 1 /\ call.value.k = "fin"
    /\ self.filter.name # "KalmanFilter"

\* C20: a prep_estim call that completes leaves a Kalman filter active if
\* and only if the session's linearity flag (stored and captured by the
\* closures) is true; and an lprob call evaluated at the captured
\* linearity on a session whose filter is still of that kind never
\* reaches llike's mismatch branch.
C20_FilterFitsLinearity ==
    [][ /\ (call'.op = "prep_estim" /\ call'.outcome = "return")
           => /\ (self'.filter.name = "KalmanFilter") <=> self'.fdict.linear
              /\ env'.linear_pa = self'.fdict.linear
        /\ ( /\ call'.op = "lprob" /\ call'.lin = env.linear_pa
             /\ (self.filter.name = "KalmanFilter") <=> env.linear_pa )
           => call'.exc # "AttributeError" ]_vars

\* prep_estim(linear=True) was followed by a default lprob that ran the
\* Kalman filter
C20_Witness ==
    /\ call.op = "lprob" /\ call.outcome = "return" /\ call.lin
    /\ env.linear_pa /\ self.fdict.linear
    /\ self.filter.name = "KalmanFilter"
    /\ call.llikeCalls = 1 /\ call.filterRuns = 1 /\ call.value.k = "fin"
====
